---- MODULE Spec2Model ----
(***************************************************************************)
(* Model of the OpenSearch MCP server: configuration resolution            *)
(* (src/types/config.ts), the lazily built client registry and the         *)
(* call-tool dispatcher (src/index.ts).                                    *)
(*                                                                         *)
(* JavaScript runs one task at a time: a handler runs without interruption *)
(* from one await to the next.  Every action below is one such run.        *)
(***************************************************************************)
EXTENDS Integers, Sequences, FiniteSets, TLC

\* ---------------------------------------------------------------- bounds
\* Most clusters a bulk declaration (OPENSEARCH_CLUSTERS) names.
MaxClusters == 2
\* Tool calls the process receives in one run.
MaxRequests == 2

\* ------------------------------------------------------------ JS values
\* The JS value undefined, where a string is expected.
Undefined == "<undefined>"

\* JS truthiness of an optional string: undefined and "" are falsy.
Truthy(s) == s # Undefined /\ s # ""

\* Cluster names a configuration may use.  z.record(z.string(), ...) accepts
\* any string as a key, the empty string included.  "7" is an array index:
\* a JS object lists such keys first, in ascending numeric order, before its
\* other keys in insertion order.
Names == {"east", "west", "", "7"}

\* The number an array-index key stands for; -1 for any other key.
ArrayIndex(n) == IF n = "7" THEN 7 ELSE -1

\* The array-index entries of seq in ascending order of their keys.
RECURSIVE IndexEntries(_)
IndexEntries(seq) ==
  LET idx == {i \in 1..Len(seq) : ArrayIndex(seq[i].name) >= 0}
  IN  IF idx = {} THEN <<>>
      ELSE LET m == CHOOSE i \in idx :
                      \A j \in idx : ArrayIndex(seq[i].name) <= ArrayIndex(seq[j].name)
               rest(e) == e.name # seq[m].name
           IN  <<seq[m]>> \o IndexEntries(SelectSeq(seq, rest))

\* Object.entries of the object JSON.parse (and then zod) builds from
\* properties written in the order of seq.
ObjectEntries(seq) ==
  LET other(e) == ArrayIndex(e.name) < 0
  IN  IndexEntries(seq) \o SelectSeq(seq, other)

\* A cluster selector the registry never holds.
Ghost == "ghost"

\* Array.prototype.join
RECURSIVE Join(_, _)
Join(seq, sep) ==
  IF Len(seq) = 0 THEN ""
  ELSE IF Len(seq) = 1 THEN seq[1]
  ELSE seq[1] \o sep \o Join(Tail(seq), sep)

\* ------------------------------------------------------- configuration
\* One cluster definition: its name and whether its fields satisfy
\* OpenSearchClusterConfigSchema (node is a URL, numbers are numbers, ...).
\* throws: new OpenSearchClient throws for this definition.  It does when
\* the definition sets auth.awsRegion and require('aws-sdk') fails (require
\* is not defined in an ES module build; the package is not installed).
Entry(n, v) == [name |-> n, valid |-> v, throws |-> FALSE]

AwsEntry(n) == [name |-> n, valid |-> TRUE, throws |-> TRUE]

\* Sequences of definitions with distinct names, at most k long.
RECURSIVE Declarations(_)
Declarations(k) ==
  IF k = 0 THEN {<<>>}
  ELSE LET shorter == Declarations(k - 1)
       IN  shorter \cup
           {Append(d, Entry(n, v)) :
              d \in {s \in shorter : Len(s) = k - 1},
              n \in Names, v \in BOOLEAN}

Distinct(d) == \A i, j \in 1..Len(d) : d[i].name = d[j].name => i = j

\* OPENSEARCH_CLUSTERS: unset (or empty), text JSON.parse rejects, JSON that
\* is not an object (a number, null, an array), or a JSON object.
BulkValues ==
  {[form |-> f, entries |-> <<>>] : f \in {"unset", "garbage", "scalar"}} \cup
  {[form |-> "object", entries |-> d] :
     d \in {s \in Declarations(MaxClusters) : Distinct(s)}}

\* The environment the process starts with.
\*   clusterName     OPENSEARCH_CLUSTER_NAME
\*   url             OPENSEARCH_URL || OPENSEARCH_NODE: unset, a URL, or a
\*                   value the schema rejects
\*   clusters        OPENSEARCH_CLUSTERS
\*   defaultCluster  OPENSEARCH_DEFAULT_CLUSTER
Envs ==
  [clusterName : {Undefined, "", "east"},
   url : {"unset", "ok", "bad"},
   clusters : BulkValues,
   defaultCluster : {Undefined} \cup Names]

\* What createConfigFromEnv returns: {clusters: <value>}.
RawConfig(kind, entries) == [kind |-> kind, entries |-> entries]

createConfigFromEnv_LegacyFirst(e) ==
  IF Truthy(e.clusterName) /\ e.url # "unset"
  THEN RawConfig("object", <<Entry(e.clusterName, e.url = "ok")>>)
  ELSE IF e.url # "unset"
  THEN RawConfig("object", <<Entry("default", e.url = "ok")>>)
  ELSE IF e.clusters.form \in {"scalar", "object"}
  THEN RawConfig(e.clusters.form, ObjectEntries(e.clusters.entries))
  ELSE RawConfig("object", <<>>)

createConfigFromEnv_LegacyByUrl(e) ==
  IF Truthy(e.clusterName) /\ e.url # "unset"
  THEN RawConfig("object", <<Entry(e.clusterName, e.url = "ok")>>)
  ELSE IF e.clusters.form \in {"scalar", "object"}
  THEN RawConfig(e.clusters.form, ObjectEntries(e.clusters.entries))
  ELSE IF e.url # "unset"
  THEN RawConfig("object", <<Entry(e.url, e.url = "ok")>>)
  ELSE RawConfig("object", <<>>)

createConfigFromEnv(e) ==
  IF Truthy(e.clusterName) /\ e.url # "unset"
  THEN RawConfig("object", <<Entry(e.clusterName, e.url = "ok")>>)
  ELSE IF e.clusters.form \in {"scalar", "object"}
  THEN RawConfig(e.clusters.form, ObjectEntries(e.clusters.entries))
  ELSE IF e.url # "unset"
  THEN RawConfig("object", <<Entry("default", e.url = "ok")>>)
  ELSE RawConfig("object", <<>>)

\* validateConfig: OpenSearchConfigSchema.parse accepts an object whose every
\* value is a valid cluster definition.  Otherwise the legacy parse of the
\* same value is tried; createConfigFromEnv never returns a top-level node,
\* so that parse fails too and validateConfig throws.
validateConfig(raw) ==
  IF raw.kind = "object" /\ \A i \in 1..Len(raw.entries) : raw.entries[i].valid
  THEN [ok |-> TRUE, clusters |-> raw.entries, message |-> ""]
  ELSE [ok |-> FALSE, clusters |-> <<>>,
        message |-> "Invalid OpenSearch configuration"]

\* ------------------------------------------------------------ registry
\* opensearchClients is a Map: insertion ordered, and set on a key it holds
\* replaces the value in place.
Keys(reg) == [i \in 1..Len(reg) |-> reg[i].name]

Has(reg, n) == \E i \in 1..Len(reg) : reg[i].name = n

Get(reg, n) == reg[CHOOSE i \in 1..Len(reg) : reg[i].name = n].id

MapSet(reg, n, c) ==
  IF Has(reg, n)
  THEN [i \in 1..Len(reg) |->
          IF reg[i].name = n THEN [name |-> n, id |-> c] ELSE reg[i]]
  ELSE Append(reg, [name |-> n, id |-> c])

\* -------------------------------------------------------------- tools
\* The names the call-tool switch knows.
Catalog ==
  {"opensearch_list_clusters", "opensearch_search", "opensearch_aggregate",
   "opensearch_count", "opensearch_index_document", "opensearch_bulk_index",
   "opensearch_get_document", "opensearch_update_document",
   "opensearch_delete_document", "opensearch_list_indices",
   "opensearch_create_index", "opensearch_delete_index",
   "opensearch_get_mapping", "opensearch_put_mapping",
   "opensearch_cluster_health", "opensearch_cluster_stats",
   "opensearch_index_stats", "opensearch_cluster_info",
   "opensearch_create_user", "opensearch_delete_user", "opensearch_get_user",
   "opensearch_list_users", "opensearch_create_role", "opensearch_delete_role",
   "opensearch_get_role", "opensearch_list_roles", "opensearch_map_role",
   "opensearch_get_role_mapping", "opensearch_list_role_mappings"}

\* A name the switch does not know.
UnknownTool == "opensearch_reindex"

\* request.params.arguments: absent, or an object whose cluster field is a
\* string or undefined.  complete: the object holds every field the tool's
\* inputSchema lists as required.
Args(present, cluster) ==
  [present |-> present, cluster |-> cluster, complete |-> TRUE]

\* An arguments object that lacks a required field.
Incomplete(cluster) == [present |-> TRUE, cluster |-> cluster, complete |-> FALSE]

NoArgs == Args(FALSE, Undefined)

Selectors == {Undefined, "", Ghost, "east", "west"}

\* The calls a client may send.  Every catalog tool but
\* opensearch_list_clusters starts with getClient(args.cluster) and then
\* awaits one method of the client; opensearch_search stands for them.
\* opensearch_aggregate requires index and aggregations; it is called here
\* without aggregations.
\* uri is the URI of a resources/read request and "" for a tools/call.
Call(tool, args) == [tool |-> tool, args |-> args, uri |-> ""]

Calls ==
  {Call("opensearch_list_clusters", Args(TRUE, Undefined)),
   Call("opensearch_aggregate", Incomplete(Undefined)),
   Call(UnknownTool, Args(TRUE, Undefined)),
   Call("opensearch_search", NoArgs)} \cup
  {Call("opensearch_search", Args(TRUE, c)) : c \in Selectors}

NoCall == Call("", NoArgs)

\* ---------------------------------------------------------- responses
ErrorCodes == {"InternalError", "InvalidRequest", "MethodNotFound"}

NoResponse ==
  [status |-> "none", code |-> "", message |-> "", clusters |-> <<>>, count |-> 0,
   defaultCluster |-> Undefined]

\* A thrown McpError, which the SDK returns to the caller as an error response.
McpError(code, message) ==
  [status |-> "error", code |-> code, message |-> message,
   clusters |-> <<>>, count |-> 0, defaultCluster |-> Undefined]

\* A thrown value that is not an McpError (a TypeError, a client library
\* error).  Thrown out of a request handler it is no McpError with a code.
JsError(message) ==
  [status |-> "exception", code |-> "", message |-> message,
   clusters |-> <<>>, count |-> 0, defaultCluster |-> Undefined]

\* A tool result: JSON text in a content block.  The JSON of
\* handleListClusters has the keys clusters and count, and no defaultCluster.
ToolResult(clusters, count) ==
  [status |-> "ok", code |-> "", message |-> "", clusters |-> clusters,
   count |-> count, defaultCluster |-> Undefined]

\* this.config before the first validateConfig returns (null), and after.
NoConfig == [resolved |-> FALSE, clusters |-> <<>>]

Resolved(clusters) == [resolved |-> TRUE, clusters |-> clusters]

\* ---------------------------------------------------------------- state
VARIABLES
  env,                \* process.env, fixed for the life of the process
  config,             \* this.config: null until a validateConfig returns
  opensearchClients,  \* this.opensearchClients: sequence of [name, id]
  nextId,             \* OpenSearchClient instances constructed so far
  pc,                 \* where each call-tool handler is suspended
  req,                \* the request each handler serves
  probes,             \* results of the pings a handler's construction pass awaited
  cur,                \* the client a construction pass is pinging
  used,               \* the client a handler resolved and called (0: none)
  resp,               \* the response each handler produced
  exit,               \* the process and its SIGINT listener
  sent,               \* what each handler passed to its client's method
  search              \* one call of OpenSearchClient.search

vars ==
  <<env, config, opensearchClients, nextId, pc, req, probes, cur, used, resp, exit,
    sent, search>>

\* exit.phase: "running"; "closing" while the SIGINT listener awaits a
\* close; "exited" after process.exit(0); "aborted" when the listener's
\* promise rejected.  exit.at: the position in opensearchClients of the
\* client whose close is awaited.  exit.closed: the clients close was
\* called on.
Running == [phase |-> "running", at |-> 0, closed |-> {}]

\* sent[r].calls: how many times the handler of r invoked a method of its
\* client; cluster: the cluster field of the parameters it passed
\* (Undefined when they hold none); rejected: the method's promise rejected.
NothingSent == [calls |-> 0, cluster |-> Undefined, rejected |-> FALSE]

\* The index names of a search are sequences of segments, so that a prefix
\* is a leading subsequence: <<"app-", "logs">> is "app-logs", <<>> is "".
NoIndex == <<Undefined>>

\* search.index: args.index of the opensearch_search call; defaultIndex and
\* indexPrefix: the cluster's configuration; called: client.search ran;
\* out: the index of the request it sent.
NoSearch ==
  [index |-> NoIndex, defaultIndex |-> NoIndex, indexPrefix |-> NoIndex,
   called |-> FALSE, out |-> NoIndex]

\* The process still runs request handlers.
Alive == exit.phase \in {"running", "closing"}

Requests == 1..MaxRequests

\* The environments the server is run with: nothing configured, the legacy
\* shorthand alone, or a bulk declaration of valid definitions alone; with
\* no default cluster or with "west" as the default.
ServerEnvs ==
  {e \in Envs :
     /\ e.clusterName = Undefined
     /\ e.url \in {"unset", "ok"}
     /\ e.clusters.form \in {"unset", "object"}
     /\ e.url = "ok" => e.clusters.form = "unset"
     /\ \A i \in 1..Len(e.clusters.entries) :
          /\ e.clusters.entries[i].valid
          /\ e.clusters.entries[i].name \in {"east", "west", ""}
     /\ e.defaultCluster \in {Undefined, "west"}}

Init ==
  /\ env \in ServerEnvs
  /\ config = NoConfig
  /\ opensearchClients = <<>>
  /\ nextId = 0
  /\ pc = [r \in Requests |-> "idle"]
  /\ req = [r \in Requests |-> NoCall]
  /\ probes = [r \in Requests |-> <<>>]
  /\ cur = [r \in Requests |-> 0]
  /\ used = [r \in Requests |-> 0]
  /\ resp = [r \in Requests |-> NoResponse]
  /\ exit = Running
  /\ sent = [r \in Requests |-> NothingSent]
  /\ search = NoSearch

\* ------------------------------------------------ initializeOpenSearch
\* The guard that makes a later call return at once.
AlreadyInitialized_OffByOne(reg) == Len(reg) > 1

AlreadyInitialized(reg) == Len(reg) > 0

\* The loop body after the ping: a failed ping skips the entry, a successful
\* one registers the client under the cluster's name.
Registered_IgnoresPing(reg, clusterName, client, isConnected) ==
  MapSet(reg, clusterName, client)

Registered(reg, clusterName, client, isConnected) ==
  IF isConnected THEN MapSet(reg, clusterName, client) ELSE reg

\* The check after the loop.
NoneConnected(reg) == Len(reg) = 0

\* The catch block: whatever was thrown becomes an InternalError McpError.
InitError(message) ==
  McpError("InternalError", "Failed to initialize OpenSearch: " \o message)

NoneConnectedMessage == "Failed to connect to any OpenSearch cluster"

\* initializeOpenSearch threw: the handler's await rethrows and the request
\* is answered with the error.
Rejected(r, error) ==
  /\ pc' = [pc EXCEPT ![r] = "done"]
  /\ resp' = [resp EXCEPT ![r] = error]

\* new OpenSearchClient(clusterConfig); client.ping() is awaited.
StartPing(r) ==
  /\ nextId' = nextId + 1
  /\ cur' = [cur EXCEPT ![r] = nextId + 1]
  /\ pc' = [pc EXCEPT ![r] = "ping"]

ConstructorMessage == "require is not defined"

\* The loop reaches a definition: new OpenSearchClient(clusterConfig) throws
\* into the catch block, or returns a client whose ping is awaited.
Construct(r, entry) ==
  IF entry.throws
  THEN Rejected(r, InitError(ConstructorMessage)) /\ UNCHANGED <<nextId, cur>>
  ELSE StartPing(r) /\ UNCHANGED resp

\* A call-tool request arrives.  The handler calls initializeOpenSearch,
\* which runs up to its first await: it returns at once when the registry
\* holds a client, and otherwise resolves the configuration and starts the
\* loop over the configured clusters.
CallTool(r, call) ==
  /\ Alive
  /\ pc[r] = "idle"
  /\ \A q \in 1..(r - 1) : pc[q] # "idle"
  /\ req' = [req EXCEPT ![r] = call]
  /\ UNCHANGED <<env, opensearchClients, probes, used, exit, sent, search>>
  /\ IF AlreadyInitialized(opensearchClients)
     THEN /\ pc' = [pc EXCEPT ![r] = "ready"]
          /\ UNCHANGED <<config, nextId, cur, resp>>
     ELSE LET cfg == validateConfig(createConfigFromEnv(env))
          IN  IF ~cfg.ok
              THEN /\ Rejected(r, InitError(cfg.message))
                   /\ UNCHANGED <<config, nextId, cur>>
              ELSE /\ config' = Resolved(cfg.clusters)
                   /\ IF Len(cfg.clusters) > 0
                      THEN Construct(r, cfg.clusters[1])
                      ELSE /\ Rejected(r, InitError(NoneConnectedMessage))
                           /\ UNCHANGED <<nextId, cur>>

\* A ping resolves (true on a 200, false on any other status or an error).
\* The loop registers or skips the client and goes on to the next cluster;
\* after the last one it throws when nothing is registered.
PingReturn(r, isConnected) ==
  /\ Alive
  /\ pc[r] = "ping"
  /\ LET entries == config.clusters
         i == Len(probes[r]) + 1
         reg == Registered(opensearchClients, entries[i].name, cur[r], isConnected)
     IN  /\ opensearchClients' = reg
         /\ probes' = [probes EXCEPT ![r] = Append(@, isConnected)]
         /\ IF i < Len(entries)
            THEN Construct(r, entries[i + 1])
            ELSE /\ UNCHANGED <<nextId, cur>>
                 /\ IF NoneConnected(reg)
                    THEN Rejected(r, InitError(NoneConnectedMessage))
                    ELSE pc' = [pc EXCEPT ![r] = "ready"] /\ UNCHANGED resp
  /\ UNCHANGED <<env, config, req, used, exit, sent, search>>

\* ----------------------------------------------------------- getClient
NotFoundMessage(target, keys) ==
  "Cluster '" \o target \o "' not found. Available clusters: " \o Join(keys, ", ")

NoClustersMessage ==
  "No clusters configured. Please configure at least one OpenSearch cluster."

\* clusterName || Array.from(this.opensearchClients.keys())[0]
TargetCluster(reg, clusterName) ==
  IF Truthy(clusterName) THEN clusterName
  ELSE IF Len(reg) > 0 THEN reg[1].name ELSE Undefined

\* The client getClient returns (0 when it throws) and the error it throws.
GetClient_First(reg, clusterName) ==
  LET targetCluster == TargetCluster(reg, clusterName)
  IN  IF ~Truthy(targetCluster)
      THEN [id |-> 0, error |-> McpError("InvalidRequest", NoClustersMessage)]
      ELSE IF ~Has(reg, targetCluster)
      THEN [id |-> 0,
            error |-> McpError("InvalidRequest",
                               NotFoundMessage(targetCluster, Keys(reg)))]
      ELSE [id |-> reg[1].id, error |-> NoResponse]

GetClient(reg, clusterName) ==
  LET targetCluster == TargetCluster(reg, clusterName)
  IN  IF ~Truthy(targetCluster)
      THEN [id |-> 0, error |-> McpError("InvalidRequest", NoClustersMessage)]
      ELSE IF ~Has(reg, targetCluster)
      THEN [id |-> 0,
            error |-> McpError("InvalidRequest",
                               NotFoundMessage(targetCluster, Keys(reg)))]
      ELSE [id |-> Get(reg, targetCluster), error |-> NoResponse]

\* The registry after getClient: keys() and get() only read the Map.
AfterGetClient_Evicts(reg, clusterName) ==
  IF Has(reg, TargetCluster(reg, clusterName)) THEN reg ELSE <<>>

AfterGetClient(reg, clusterName) == reg

\* ------------------------------------------------------- call-tool handler
NotInitializedMessage == "OpenSearch clients not initialized"

TypeErrorMessage == "Cannot read properties of undefined (reading 'cluster')"

\* The McpError the outer catch builds around another error's message.
ToolFailed(name, message) ==
  McpError("InternalError", "Tool " \o name \o " failed: " \o message)

\* The outer catch: an McpError passes, anything else is wrapped.
Caught_Rethrows(name, error) == error

Caught(name, error) ==
  IF error.status = "error" THEN error ELSE ToolFailed(name, error.message)

\* The tools whose handler passes its whole arguments object to the client's
\* method (handleListIndices, handleClusterHealth); the other handlers pick
\* the fields they pass.
PassesArgs == {"opensearch_list_indices", "opensearch_cluster_health"}

\* The cluster field of the parameters a handler passes to its client.
BackendParams(name, args) ==
  IF name \in PassesArgs THEN args.cluster ELSE Undefined

\* The handler invokes its client's method, once.
Invoked_Twice(s, cluster) == [s EXCEPT !.calls = @ + 2, !.cluster = cluster]

Invoked(s, cluster) == [s EXCEPT !.calls = @ + 1, !.cluster = cluster]

\* The handler resumes after await this.initializeOpenSearch(): the size
\* guard, then the switch.  opensearch_list_clusters answers at once; every
\* other known tool resolves its client and awaits the client's method.
Dispatch(r) ==
  /\ Alive
  /\ pc[r] = "ready"
  /\ req[r].uri = ""
  /\ LET name == req[r].tool
         args == req[r].args
         got == GetClient(opensearchClients, args.cluster)
         answer(x) == /\ resp' = [resp EXCEPT ![r] = x]
                      /\ pc' = [pc EXCEPT ![r] = "done"]
                      /\ UNCHANGED <<used, sent>>
     IN  IF Len(opensearchClients) = 0
         THEN answer(McpError("InternalError", NotInitializedMessage))
         ELSE IF name \notin Catalog
         THEN answer(Caught(name, McpError("MethodNotFound", "Unknown tool: " \o name)))
         ELSE IF name = "opensearch_list_clusters"
         THEN answer(ToolResult(Keys(opensearchClients), Len(opensearchClients)))
         ELSE IF ~args.present
         THEN answer(Caught(name, JsError(TypeErrorMessage)))
         ELSE IF got.id = 0
         THEN answer(Caught(name, got.error))
         ELSE /\ used' = [used EXCEPT ![r] = got.id]
              /\ sent' = [sent EXCEPT ![r] = Invoked(@, BackendParams(name, args))]
              /\ pc' = [pc EXCEPT ![r] = "backend"]
              /\ UNCHANGED resp
  /\ opensearchClients' =
       IF /\ Len(opensearchClients) > 0
          /\ req[r].tool \in Catalog \ {"opensearch_list_clusters"}
          /\ req[r].args.present
       THEN AfterGetClient(opensearchClients, req[r].args.cluster)
       ELSE opensearchClients
  /\ UNCHANGED <<env, config, nextId, req, probes, cur, exit, search>>

BackendMessage == "index_not_found_exception"

\* The client's method resolves or rejects; the client logs and rethrows,
\* and the outer catch wraps the error.
BackendReturn(r, succeeded) ==
  /\ Alive
  /\ pc[r] = "backend"
  /\ req[r].uri = ""
  /\ pc' = [pc EXCEPT ![r] = "done"]
  /\ sent' = [sent EXCEPT ![r].rejected = ~succeeded]
  /\ resp' = [resp EXCEPT ![r] =
                IF succeeded THEN ToolResult(<<>>, 0)
                ELSE Caught(req[r].tool, JsError(BackendMessage))]
  /\ UNCHANGED <<env, config, opensearchClients, nextId, req, probes, cur, used,
                 exit, search>>

\* ------------------------------------------------- read-resource handler
\* The URIs the read-resource switch knows, and one it does not.
KnownUris ==
  {"opensearch://cluster/info", "opensearch://cluster/health",
   "opensearch://indices/list"}

UnknownUri == "opensearch://nodes/stats"

ReadCall(uri) == [tool |-> "", args |-> NoArgs, uri |-> uri]

\* The handler's catch: whatever was thrown in the try block, an McpError
\* included, is replaced by an InternalError McpError.
ReadFailed(uri, error) ==
  McpError("InternalError",
           "Failed to read resource " \o uri \o ": " \o error.message)

\* A read-resource request arrives: the handler calls initializeOpenSearch,
\* as the call-tool handler does.
ReadResource(r, uri) ==
  /\ \A q \in Requests : pc[q] \in {"idle", "done"}
  /\ CallTool(r, ReadCall(uri))

\* The handler resumes after await this.initializeOpenSearch(): the size
\* guard and getClient() outside the try block, then the switch inside it.
ReadDispatch(r) ==
  /\ Alive
  /\ pc[r] = "ready"
  /\ req[r].uri # ""
  /\ LET uri == req[r].uri
         got == GetClient(opensearchClients, Undefined)
         answer(x) == /\ resp' = [resp EXCEPT ![r] = x]
                      /\ pc' = [pc EXCEPT ![r] = "done"]
                      /\ UNCHANGED <<used, sent>>
     IN  IF Len(opensearchClients) = 0
         THEN answer(McpError("InternalError", NotInitializedMessage))
         ELSE IF got.id = 0
         THEN answer(got.error)
         ELSE IF uri \notin KnownUris
         THEN answer(ReadFailed(uri, McpError("InvalidRequest",
                                              "Unknown resource: " \o uri)))
         ELSE /\ used' = [used EXCEPT ![r] = got.id]
              /\ sent' = [sent EXCEPT ![r] = Invoked(@, Undefined)]
              /\ pc' = [pc EXCEPT ![r] = "backend"]
              /\ UNCHANGED resp
  /\ UNCHANGED <<env, config, opensearchClients, nextId, req, probes, cur, exit,
                 search>>

\* client.info(), clusterHealth() or catIndices() resolves or rejects.
ReadReturn(r, succeeded) ==
  /\ Alive
  /\ pc[r] = "backend"
  /\ req[r].uri # ""
  /\ pc' = [pc EXCEPT ![r] = "done"]
  /\ sent' = [sent EXCEPT ![r].rejected = ~succeeded]
  /\ resp' = [resp EXCEPT ![r] =
                IF succeeded THEN ToolResult(<<>>, 0)
                ELSE ReadFailed(req[r].uri, JsError(BackendMessage))]
  /\ UNCHANGED <<env, config, opensearchClients, nextId, req, probes, cur, used,
                 exit, search>>

\* ---------------------------------------------------------------- SIGINT
\* The listener's loop reaches position i of the live Map: it calls close on
\* the client there and awaits it, or calls process.exit(0) past the end.
CloseFrom(i) ==
  IF i <= Len(opensearchClients)
  THEN exit' = [phase |-> "closing", at |-> i,
                closed |-> exit.closed \cup {opensearchClients[i].id}]
  ELSE exit' = [exit EXCEPT !.phase = "exited"]

\* SIGINT arrives: the listener starts its loop over opensearchClients.
Sigint ==
  /\ exit.phase = "running"
  /\ CloseFrom(1)
  /\ UNCHANGED <<env, config, opensearchClients, nextId, pc, req, probes, cur,
                 used, resp, sent, search>>

\* An awaited close resolves, and the loop goes on; or it rejects, and the
\* rejection leaves the async listener, which has no try/catch: the loop
\* and the process.exit(0) after it never run.
CloseReturn(closed) ==
  /\ exit.phase = "closing"
  /\ IF closed
     THEN CloseFrom(exit.at + 1)
     ELSE exit' = [exit EXCEPT !.phase = "aborted"]
  /\ UNCHANGED <<env, config, opensearchClients, nextId, pc, req, probes, cur,
                 used, resp, sent, search>>

\* ------------------------------------------------- OpenSearchClient.search
\* JavaScript truthiness of an index value: undefined and "" are falsy.
TruthyIndex(x) == x # NoIndex /\ x # <<>>

\* String.prototype.startsWith.
StartsWith(str, prefix) ==
  Len(prefix) <= Len(str) /\ SubSeq(str, 1, Len(prefix)) = prefix

\* The object handleSearch passes: it always has the key index, whose value
\* is undefined when the call gave none.
SearchParams(index) == [hasIndex |-> TRUE, index |-> index]

\* The index of the request client.search sends.  The object literal sets
\* index to params.index || config.defaultIndex and then spreads params over
\* it, so an own key index of params, undefined included, replaces that
\* value; the prefix is applied to what is left when both are truthy.
SearchIndex(cfg, params) ==
  LET initial == IF TruthyIndex(params.index) THEN params.index
                 ELSE cfg.defaultIndex
      spread == IF params.hasIndex THEN params.index ELSE initial
  IN  IF TruthyIndex(cfg.indexPrefix) /\ TruthyIndex(spread)
      THEN IF StartsWith(spread, cfg.indexPrefix) THEN spread
           ELSE cfg.indexPrefix \o spread
      ELSE spread

\* handleSearch on a resolved client: searchParams is built from the
\* arguments and client.search sends the request.
HandleSearch ==
  /\ ~search.called
  /\ search' = [search EXCEPT
                  !.called = TRUE,
                  !.out = SearchIndex(search, SearchParams(search.index))]
  /\ UNCHANGED <<env, config, opensearchClients, nextId, pc, req, probes, cur,
                 used, resp, exit, sent>>

\* ------------------------------------------------------- specifications
\* Requests may overlap: the next one may arrive while earlier ones are
\* suspended on a ping or on the backend.
Next ==
  \E r \in Requests :
    \/ \E call \in Calls : CallTool(r, call)
    \/ \E isConnected \in BOOLEAN : PingReturn(r, isConnected)
    \/ Dispatch(r)
    \/ \E succeeded \in BOOLEAN : BackendReturn(r, succeeded)

Spec == Init /\ [][Next]_vars

\* Requests do not overlap: one arrives only when every earlier one has
\* been answered.
Quiet == \A q \in Requests : pc[q] \in {"idle", "done"}

SeqCallTool(r, call) == Quiet /\ CallTool(r, call)

SeqNext ==
  \E r \in Requests :
    \/ \E call \in Calls : SeqCallTool(r, call)
    \/ \E isConnected \in BOOLEAN : PingReturn(r, isConnected)
    \/ Dispatch(r)
    \/ \E succeeded \in BOOLEAN : BackendReturn(r, succeeded)

SeqSpec == Init /\ [][SeqNext]_vars

\* Requests one at a time, and a SIGINT at any moment.
ShutdownNext ==
  \/ \E r \in Requests :
       \/ \E call \in Calls : SeqCallTool(r, call)
       \/ \E isConnected \in BOOLEAN : PingReturn(r, isConnected)
       \/ Dispatch(r)
       \/ \E succeeded \in BOOLEAN : BackendReturn(r, succeeded)
  \/ Sigint
  \/ \E closed \in BOOLEAN : CloseReturn(closed)

ShutdownSpec == Init /\ [][ShutdownNext]_vars

\* The first request of a process started with any environment: the
\* configuration is resolved, the clusters are pinged, and the request, a
\* list of the clusters, is answered.
CfgInit ==
  /\ env \in Envs
  /\ config = NoConfig
  /\ opensearchClients = <<>>
  /\ nextId = 0
  /\ pc = [r \in Requests |-> "idle"]
  /\ req = [r \in Requests |-> NoCall]
  /\ probes = [r \in Requests |-> <<>>]
  /\ cur = [r \in Requests |-> 0]
  /\ used = [r \in Requests |-> 0]
  /\ resp = [r \in Requests |-> NoResponse]
  /\ exit = Running
  /\ sent = [r \in Requests |-> NothingSent]
  /\ search = NoSearch

CfgNext ==
  \/ CallTool(1, Call("opensearch_list_clusters", NoArgs))
  \/ \E isConnected \in BOOLEAN : PingReturn(1, isConnected)
  \/ Dispatch(1)

CfgSpec == CfgInit /\ [][CfgNext]_vars

\* Bulk declarations over two names in which any definition may be one the
\* client's constructor throws for.
RECURSIVE AwsDeclarations(_)
AwsDeclarations(k) ==
  IF k = 0 THEN {<<>>}
  ELSE LET shorter == AwsDeclarations(k - 1)
       IN  shorter \cup
           {Append(d, e) :
              d \in {s \in shorter : Len(s) = k - 1},
              e \in {Entry(n, TRUE) : n \in {"east", "west"}} \cup
                    {AwsEntry(n) : n \in {"east", "west"}}}

\* Calls of tools whose handler passes its arguments object on, and of one
\* whose handler does not.
ParamCalls ==
  {Call(t, Args(TRUE, c)) :
     t \in PassesArgs \cup {"opensearch_search"}, c \in {Undefined, "east"}}

ParamNext ==
  \E r \in Requests :
    \/ \E call \in ParamCalls : SeqCallTool(r, call)
    \/ \E isConnected \in BOOLEAN : PingReturn(r, isConnected)
    \/ Dispatch(r)
    \/ \E succeeded \in BOOLEAN : BackendReturn(r, succeeded)

ParamSpec == Init /\ [][ParamNext]_vars

\* One opensearch_search call on one client, for every combination of the
\* call's index and the cluster's defaultIndex and indexPrefix.
IndexArgs == {NoIndex, <<>>, <<"logs">>, <<"app-", "logs">>}

DefaultIndexes == {NoIndex, <<>>, <<"main">>, <<"app-", "main">>}

IndexPrefixes == {NoIndex, <<>>, <<"app-">>, <<"app-", "x-">>}

SearchInit ==
  /\ env = [clusterName |-> Undefined, url |-> "ok",
            clusters |-> [form |-> "unset", entries |-> <<>>],
            defaultCluster |-> Undefined]
  /\ config = NoConfig
  /\ opensearchClients = <<>>
  /\ nextId = 0
  /\ pc = [r \in Requests |-> "idle"]
  /\ req = [r \in Requests |-> NoCall]
  /\ probes = [r \in Requests |-> <<>>]
  /\ cur = [r \in Requests |-> 0]
  /\ used = [r \in Requests |-> 0]
  /\ resp = [r \in Requests |-> NoResponse]
  /\ exit = Running
  /\ sent = [r \in Requests |-> NothingSent]
  /\ search \in [index : IndexArgs, defaultIndex : DefaultIndexes,
                  indexPrefix : IndexPrefixes, called : {FALSE}, out : {NoIndex}]

SearchSpec == SearchInit /\ [][HandleSearch]_vars

\* Resource reads and tool calls, one request at a time.
ResourceNext ==
  \E r \in Requests :
    \/ \E uri \in {"opensearch://cluster/info", UnknownUri} : ReadResource(r, uri)
    \/ \E call \in {Call(UnknownTool, Args(TRUE, Undefined)),
                      Call("opensearch_list_clusters", Args(TRUE, Undefined))} :
         SeqCallTool(r, call)
    \/ \E isConnected \in BOOLEAN : PingReturn(r, isConnected)
    \/ Dispatch(r)
    \/ ReadDispatch(r)
    \/ \E succeeded \in BOOLEAN : ReadReturn(r, succeeded)

ResourceSpec == Init /\ [][ResourceNext]_vars

CtorInit ==
  /\ env \in {[clusterName |-> Undefined, url |-> "unset",
               clusters |-> [form |-> "object", entries |-> d],
               defaultCluster |-> Undefined] :
               d \in {s \in AwsDeclarations(MaxClusters) : Distinct(s)}}
  /\ config = NoConfig
  /\ opensearchClients = <<>>
  /\ nextId = 0
  /\ pc = [r \in Requests |-> "idle"]
  /\ req = [r \in Requests |-> NoCall]
  /\ probes = [r \in Requests |-> <<>>]
  /\ cur = [r \in Requests |-> 0]
  /\ used = [r \in Requests |-> 0]
  /\ resp = [r \in Requests |-> NoResponse]
  /\ exit = Running
  /\ sent = [r \in Requests |-> NothingSent]
  /\ search = NoSearch

CtorSpec == CtorInit /\ [][SeqNext]_vars

\* ---------------------------------------------------------------- claims
\* The construction pass of request r ran to the end of its loop (every
\* configured cluster was pinged) ...
PassEnded(r) ==
  /\ config.resolved
  /\ Len(config.clusters) > 0
  /\ Len(probes[r]) = Len(config.clusters)

\* ... and did not throw.
PassSucceeded(r) ==
  PassEnded(r) /\ resp[r] # InitError(NoneConnectedMessage)

Built == \E r \in Requests : PassSucceeded(r)

\* Request r is a known tool other than opensearch_list_clusters, with an
\* arguments object: its handler calls getClient(args.cluster).
Resolves(r) ==
  /\ req[r].tool \in Catalog \ {"opensearch_list_clusters"}
  /\ req[r].args.present

\* The step in which request r's handler runs the switch.
Dispatches(r) == pc[r] = "ready" /\ pc'[r] # "ready"

\* C1: when requests overlap while the registry is unbuilt, exactly one
\* construction pass runs: no two handlers are inside the construction loop
\* (suspended on a ping) at the same time.
C1_SingleConstruction ==
  \A r, q \in Requests : (pc[r] = "ping" /\ pc[q] = "ping") => r = q

\* C2: once a construction pass has completed successfully, no later step
\* changes the registry: its names, their order and the client bound to
\* each name stay as they are.
C2_ReadOnlyAfterBuild ==
  [][Built => opensearchClients' = opensearchClients]_vars

\* C3: in a run without overlap, once a pass has built the registry, no
\* later step constructs a client, sends a ping or changes the registry, and
\* a request that arrives goes straight on to the switch.
C3_LaterInitIsNoop ==
  [][Built =>
       /\ nextId' = nextId
       /\ probes' = probes
       /\ opensearchClients' = opensearchClients
       /\ \A r \in Requests : pc[r] = "idle" /\ pc'[r] # "idle" => pc'[r] = "ready"
    ]_vars

C3_Witness ==
  \E r, q \in Requests :
    /\ r < q
    /\ PassSucceeded(r)
    /\ pc[q] = "done"
    /\ resp[q].status = "ok"

\* The names of the configured clusters whose ping succeeded in r's pass, in
\* configuration order.
RECURSIVE Survivors(_, _)
Survivors(entries, oks) ==
  IF Len(entries) = 0 THEN <<>>
  ELSE IF oks[1] THEN <<entries[1].name>> \o Survivors(Tail(entries), Tail(oks))
  ELSE Survivors(Tail(entries), Tail(oks))

\* C4: a pass that pinged all N configured clusters, K of which failed: if
\* K < N the pass succeeds and the registry holds exactly the N-K clusters
\* whose ping succeeded, in order; if K = N the pass fails with an error and
\* leaves the registry empty (until a later request tries again).
C4_PartialFailure ==
  \A r \in Requests :
    PassEnded(r) =>
      LET live == Survivors(config.clusters, probes[r])
      IN  IF Len(live) > 0
          THEN /\ PassSucceeded(r)
               /\ pc[r] \in {"ready", "backend", "done"}
               /\ Keys(opensearchClients) = live
          ELSE /\ pc[r] = "done"
               /\ resp[r] = InitError(NoneConnectedMessage)
               /\ (\A q \in Requests : q > r => pc[q] = "idle")
                    => opensearchClients = <<>>

C4_Witness ==
  \E r \in Requests :
    /\ probes[r] = <<FALSE, TRUE>>
    /\ pc[r] = "ready"
    /\ Len(opensearchClients) = 1

\* C5: a handler runs only with a registry that holds a client, and no
\* request is ever answered from getClient's "No clusters configured" branch.
C5_NoClustersUnreachable ==
  \A r \in Requests :
    /\ pc[r] \in {"ready", "backend"} => Len(opensearchClients) > 0
    /\ resp[r].message # NoClustersMessage

\* C6: a call without a cluster resolves to the client of the configured
\* default cluster (OPENSEARCH_DEFAULT_CLUSTER) whenever that cluster is
\* registered.  Stated for registries whose names are all non-empty.
C6_DefaultClusterUsed ==
  [][\A r \in Requests :
       /\ Dispatches(r)
       /\ Resolves(r)
       /\ req[r].args.cluster = Undefined
       /\ Has(opensearchClients, env.defaultCluster)
       /\ \A i \in 1..Len(opensearchClients) : Truthy(opensearchClients[i].name)
       => /\ pc'[r] = "backend"
          /\ used'[r] = Get(opensearchClients, env.defaultCluster)
    ]_vars

\* C7: a call without a cluster resolves to the client registered first.
C7_FirstClusterUsed ==
  [][\A r \in Requests :
       /\ Dispatches(r)
       /\ Resolves(r)
       /\ req[r].args.cluster = Undefined
       /\ Len(opensearchClients) > 0
       => /\ pc'[r] = "backend"
          /\ used'[r] = opensearchClients[1].id
    ]_vars

\* C8: a call that names a cluster the registry does not hold is answered
\* with the cluster-not-found error, whose message lists the registered
\* names in registry order.
C8_UnregisteredNotFound ==
  [][\A r \in Requests :
       /\ Dispatches(r)
       /\ Resolves(r)
       /\ req[r].args.cluster # Undefined
       /\ ~Has(opensearchClients, req[r].args.cluster)
       /\ Len(opensearchClients) > 0
       => resp'[r] = McpError("InvalidRequest",
                              NotFoundMessage(req[r].args.cluster,
                                              Keys(opensearchClients)))
    ]_vars

\* C9: a call that names a key of the registry resolves to the client
\* registered under that key.
C9_RegisteredNameResolves ==
  [][\A r \in Requests :
       /\ Dispatches(r)
       /\ Resolves(r)
       /\ req[r].args.cluster # Undefined
       /\ Has(opensearchClients, req[r].args.cluster)
       => /\ pc'[r] = "backend"
          /\ used'[r] = Get(opensearchClients, req[r].args.cluster)
    ]_vars

\* C10: a request for a tool the catalog does not hold starts no
\* construction pass, sends no ping, and is answered MethodNotFound.
C10_UnknownToolNoBackend ==
  \A r \in Requests :
    req[r].tool # "" /\ req[r].tool \notin Catalog =>
      /\ pc[r] # "ping"
      /\ probes[r] = <<>>
      /\ pc[r] = "done" => resp[r].code = "MethodNotFound"

\* C11: a call of a known tool whose arguments lack a field the tool's
\* input schema requires invokes no backend method and is never answered
\* with a result.
C11_MissingRequiredRejected ==
  \A r \in Requests :
    req[r].tool \in Catalog /\ ~req[r].args.complete =>
      /\ pc[r] # "backend"
      /\ used[r] = 0
      /\ resp[r].status # "ok"

\* Request r was answered from the catch around the construction pass.
InitFailed(r) ==
  /\ pc[r] = "done"
  /\ resp[r] \in {InitError(NoneConnectedMessage),
                  InitError(validateConfig(RawConfig("scalar", <<>>)).message)}

\* Request r cannot have succeeded: its tool is unknown, its handler reads a
\* field of an absent arguments object, or it names a cluster that no
\* configuration declares.
MustFail(r) ==
  \/ req[r].tool # "" /\ req[r].tool \notin Catalog
  \/ req[r].tool \in Catalog \ {"opensearch_list_clusters"} /\ ~req[r].args.present
  \/ Resolves(r) /\ req[r].args.cluster = Ghost

\* C12: every answered request carries either a result or an McpError with
\* one of the protocol's codes; no other thrown value leaves the handler,
\* and a request that cannot succeed is answered with an error.
C12_EveryFailureIsMcpError ==
  \A r \in Requests :
    pc[r] = "done" =>
      /\ resp[r].status \in {"ok", "error"}
      /\ resp[r].status = "error" => resp[r].code \in ErrorCodes
      /\ MustFail(r) => resp[r].status = "error"

\* Answered: a TypeError and a backend exception, both wrapped by the catch.
C12_Witness ==
  \E r, q \in Requests :
    /\ resp[r] = ToolFailed(req[r].tool, TypeErrorMessage)
    /\ resp[q] = ToolFailed(req[q].tool, BackendMessage)

\* C13: after a request was answered with a construction failure, no later
\* request runs construction again or is answered with a result.
C13_ConstructionFailureFatal ==
  \A r, q \in Requests :
    r < q /\ InitFailed(r) =>
      /\ probes[q] = <<>>
      /\ pc[q] \notin {"ping", "ready", "backend"}
      /\ resp[q].status # "ok"

\* C14: once the SIGINT listener has ended, by process.exit or by a close
\* that failed, close was called on every client of the registry.
C14_ShutdownClosesAll ==
  exit.phase \in {"exited", "aborted"} =>
    \A i \in 1..Len(opensearchClients) : opensearchClients[i].id \in exit.closed

\* ------------------------------------------- claims about configuration
\* The first request has run initializeOpenSearch up to its first await:
\* the configuration was resolved, or the request was rejected.
Loaded == pc[1] # "idle"

InvalidConfig == InitError(validateConfig(RawConfig("scalar", <<>>)).message)

\* The sources of cluster definitions in e.
NamedPresent(e) == Truthy(e.clusterName) /\ e.url # "unset"

LegacyPresent(e) == ~Truthy(e.clusterName) /\ e.url # "unset"

NameSet(entries) == {entries[i].name : i \in 1..Len(entries)}

AllValid(entries) == \A i \in 1..Len(entries) : entries[i].valid

\* Every source in e is absent or well formed.
WellFormed(e) ==
  /\ e.url \in {"unset", "ok"}
  /\ e.clusters.form \in {"unset", "object"}
  /\ AllValid(e.clusters.entries)

\* The names the first source that yields a definition yields.
FirstYielding(e) ==
  IF NamedPresent(e) THEN {e.clusterName}
  ELSE IF Len(e.clusters.entries) > 0 THEN NameSet(e.clusters.entries)
  ELSE IF e.url # "unset" THEN {"default"}
  ELSE {}

\* C15: with every source absent or well formed, the resolved clusters are
\* those of the first source, in the order named shorthand, bulk
\* declaration, legacy shorthand, that yields at least one definition.
C15_FirstYieldingSourceWins ==
  Loaded /\ WellFormed(env) =>
    /\ config.resolved
    /\ NameSet(config.clusters) = FirstYielding(env)

\* A bulk declaration of valid definitions and the legacy shorthand.
BulkAndLegacy(e) ==
  /\ LegacyPresent(e)
  /\ e.clusters.form = "object"
  /\ AllValid(e.clusters.entries)

\* C16: with a bulk declaration and the legacy shorthand both present, the
\* resolved clusters are the bulk declaration's and none is named "default".
C16_BulkBeatsLegacy ==
  Loaded /\ BulkAndLegacy(env) =>
    /\ config = Resolved(ObjectEntries(env.clusters.entries))
    /\ "default" \notin NameSet(config.clusters)

C16_Witness ==
  /\ Loaded
  /\ BulkAndLegacy(env)
  /\ env.url = "ok"
  /\ NameSet(config.clusters) = {"east", "west"}
  /\ Keys(opensearchClients) = <<"east", "west">>

\* C17: with the legacy shorthand present and valid, a bulk declaration
\* that does not parse, or parses to something that is no object, is
\* treated as absent: the legacy cluster is resolved and initialization
\* does not fail on the configuration.
C17_MalformedBulkIgnored ==
  /\ Loaded
  /\ LegacyPresent(env)
  /\ env.url = "ok"
  /\ env.clusters.form \in {"garbage", "scalar"}
  => /\ config = Resolved(<<Entry("default", TRUE)>>)
     /\ resp[1] # InvalidConfig

\* C18: a bulk declaration with at least one valid entry resolves to
\* exactly its valid entries.
C18_InvalidEntriesDropped ==
  /\ Loaded
  /\ ~NamedPresent(env)
  /\ env.clusters.form = "object"
  /\ \E i \in 1..Len(env.clusters.entries) : env.clusters.entries[i].valid
  => LET valid(e) == e.valid
     IN  /\ config = Resolved(SelectSeq(ObjectEntries(env.clusters.entries), valid))
         /\ resp[1] # InvalidConfig

\* Legacy fields, no cluster name, no bulk declaration.
LegacyOnly(e) == LegacyPresent(e) /\ e.clusters.form = "unset"

\* C19: legacy input alone yields one definition, named "default"; when its
\* fields are valid it is the resolved configuration, and otherwise
\* resolution fails and nothing is resolved.
C19_LegacyIsDefault ==
  Loaded /\ LegacyOnly(env) =>
    /\ NameSet(createConfigFromEnv(env).entries) = {"default"}
    /\ Len(createConfigFromEnv(env).entries) = 1
    /\ IF env.url = "ok"
       THEN config = Resolved(<<Entry("default", TRUE)>>)
       ELSE config = NoConfig /\ resp[1] = InvalidConfig

C19_Witness ==
  /\ LegacyOnly(env)
  /\ env.url = "ok"
  /\ pc[1] = "done"
  /\ resp[1] = ToolResult(<<"default">>, 1)

\* The declared definitions whose cluster is registered, in declaration
\* order.
DeclaredSurvivors ==
  LET live(e) == Has(opensearchClients, e.name)
  IN  Keys(SelectSeq(env.clusters.entries, live))

\* C20: the list of clusters answered by the request that built the
\* registry from a bulk declaration names the surviving clusters in the
\* order of their declaration.
C20_ListKeepsDeclarationOrder ==
  /\ pc[1] = "done"
  /\ resp[1].status = "ok"
  /\ ~NamedPresent(env)
  /\ env.clusters.form = "object"
  => resp[1].clusters = DeclaredSurvivors

\* ------------------------------------------------ claims about dispatch
\* C21: the answer of opensearch_list_clusters holds the registered names in
\* registry order, their number, and the default cluster: the cluster a
\* call without a selector resolves to.
C21_ListNamesDefaultCount ==
  [][\A r \in Requests :
       /\ Dispatches(r)
       /\ req[r].tool = "opensearch_list_clusters"
       /\ Len(opensearchClients) > 0
       => /\ resp'[r].status = "ok"
          /\ resp'[r].clusters = Keys(opensearchClients)
          /\ resp'[r].count = Len(resp'[r].clusters)
          /\ resp'[r].defaultCluster = TargetCluster(opensearchClients, Undefined)
    ]_vars

\* The step in which the client's method of request r resolves or rejects.
Returns(r) == pc[r] = "backend" /\ pc'[r] = "done"

\* C22: no step of a handler after initializeOpenSearch (the switch,
\* getClient, the return of the client's method) changes the registry,
\* whatever the request is answered with.
C22_DispatchKeepsRegistry ==
  [][\A r \in Requests :
       Dispatches(r) \/ Returns(r) => opensearchClients' = opensearchClients
    ]_vars

\* A request answered cluster-not-found, then one served by a backend.
C22_Witness ==
  \E r, q \in Requests :
    /\ r < q
    /\ resp[r].code = "InvalidRequest"
    /\ used[q] # 0
    /\ resp[q].status = "ok"
    /\ Len(opensearchClients) = 2

\* C23: the parameters a handler passes to its client's method never hold
\* the cluster field.
C23_SelectorNotForwarded ==
  \A r \in Requests : sent[r].calls > 0 => sent[r].cluster = Undefined

\* C24: a dispatch whose selector resolves to cluster X invokes one method,
\* on the client registered under X.
C24_OnlyResolvedClientCalled ==
  [][\A r \in Requests :
       Dispatches(r) /\ pc'[r] = "backend" =>
         LET X == TargetCluster(opensearchClients, req[r].args.cluster)
         IN  /\ Has(opensearchClients, X)
             /\ used'[r] = Get(opensearchClients, X)
             /\ sent'[r].calls = 1
    ]_vars

\* The second of two registered clusters is selected and called.
C24_Witness ==
  \E r \in Requests :
    /\ Len(opensearchClients) = 2
    /\ req[r].args.cluster = opensearchClients[2].name
    /\ used[r] = opensearchClients[2].id
    /\ pc[r] = "backend"

\* C25: when the client's method rejects, the handler has invoked it once,
\* and the request is answered with an error whose message ends with the
\* backend's message.
C25_BackendFailureForwarded ==
  \A r \in Requests :
    /\ sent[r].calls <= 1
    /\ sent[r].rejected =>
         /\ pc[r] = "done"
         /\ sent[r].calls = 1
         /\ resp[r].status = "error"
         /\ resp[r].code \in ErrorCodes
         /\ resp[r].message =
              "Tool " \o req[r].tool \o " failed: " \o BackendMessage

C25_Witness ==
  \E r \in Requests : sent[r].rejected /\ resp[r].status = "error"

\* C26: a search without an index, on a cluster with a default index, sends
\* the default index, with the prefix put before it when one is configured
\* and the name does not start with it; without a default index it sends
\* no index.
C26_DefaultIndexSent ==
  search.called /\ search.index = NoIndex =>
    IF TruthyIndex(search.defaultIndex)
    THEN search.out =
           IF /\ TruthyIndex(search.indexPrefix)
              /\ ~StartsWith(search.defaultIndex, search.indexPrefix)
           THEN search.indexPrefix \o search.defaultIndex
           ELSE search.defaultIndex
    ELSE ~TruthyIndex(search.out)

\* C27: a request that found the registry non-empty and so ran no
\* construction pass of its own does not run the switch while another
\* request's construction pass is still awaiting a ping.
C27_NoDispatchDuringConstruction ==
  [][\A r, q \in Requests :
       Dispatches(r) /\ probes[r] = <<>> /\ q # r => pc[q] # "ping"
    ]_vars

\* C28: when a request was answered with the failure of a client's
\* constructor, the registry is empty and no request gets a result.
C28_FailedInitLeavesNothing ==
  (\E r \in Requests : resp[r] = InitError(ConstructorMessage)) =>
    /\ opensearchClients = <<>>
    /\ \A q \in Requests : resp[q].status # "ok"

\* C29: when the process has exited on SIGINT with no construction pass in
\* flight, close was called on every client that was constructed.
C29_EveryClientClosed ==
  /\ exit.phase = "exited"
  /\ \A r \in Requests : pc[r] # "ping"
  => \A id \in 1..nextId : id \in exit.closed

\* C30: with the registry built, an unknown tool is answered MethodNotFound
\* and an unknown resource URI is answered InvalidRequest.
C30_McpErrorCodeKept ==
  [][\A r \in Requests :
       Dispatches(r) /\ Len(opensearchClients) > 0 =>
         /\ req[r].uri = "" /\ req[r].tool \notin Catalog
              => resp'[r].code = "MethodNotFound"
         /\ req[r].uri # "" /\ req[r].uri \notin KnownUris
              => resp'[r].code = "InvalidRequest"
    ]_vars

====
